---- MODULE Spec2Model ----
(***************************************************************************)
(* nanoHTTP: the ASGI gateway (Application.__call__), the Response          *)
(* normalisation (Response.from_any) and the MultiDict it is built on.     *)
(*                                                                         *)
(* Text (str) is a sequence of code points and bytes a sequence of 0..255, *)
(* so that encode/decode, lower(), join and substring tests are computed.  *)
(***************************************************************************)
EXTENDS Integers, Sequences, FiniteSets, TLC

(* ------------------------------------------------------------------ *)
(* Bounds of the model                                                 *)
(* ------------------------------------------------------------------ *)

\* the host delivers at most this many body chunk events per transaction
MaxChunks == 2

\* the max_content the Application is constructed with (default 1048576)
MaxContent == 2

(* ------------------------------------------------------------------ *)
(* Text literals (code points)                                         *)
(* ------------------------------------------------------------------ *)

s_empty == << >>
\* "GET"
GET == <<71, 69, 84>>
\* "POST"
POST == <<80, 79, 83, 84>>
\* ", "
s_comma == <<44, 32>>
\* ": "
s_colon == <<58, 32>>
\* "allow"
s_allow == <<97, 108, 108, 111, 119>>
\* "cookie"
s_cookie == <<99, 111, 111, 107, 105, 101>>
\* "set-cookie"
s_set_cookie == <<115, 101, 116, 45>> \o s_cookie
\* "Set-Cookie: "
s_Set_Cookie == <<83, 101, 116, 45, 67, 111, 111, 107, 105, 101>> \o s_colon
\* "content-type"
s_content_type == <<99, 111, 110, 116, 101, 110, 116, 45, 116, 121, 112, 101>>
\* "Content-Type"
s_Content_Type == <<67, 111, 110, 116, 101, 110, 116, 45, 84, 121, 112, 101>>
\* "content-length"
s_content_length == <<99, 111, 110, 116, 101, 110, 116, 45, 108, 101, 110, 103, 116, 104>>
\* "; charset=utf-8"
s_charset == <<59, 32, 99, 104, 97, 114, 115, 101, 116, 61, 117, 116, 102, 45, 56>>

\* MediaType.JSON = "application/json"
MediaType_JSON == <<97, 112, 112, 108, 105, 99, 97, 116, 105, 111, 110, 47, 106, 115, 111, 110>>
\* MediaType.HTML = "text/html"
MediaType_HTML == <<116, 101, 120, 116, 47, 104, 116, 109, 108>>
\* RequestEncodingType.URL_ENCODED = "application/x-www-form-urlencoded"
URL_ENCODED == <<97, 112, 112, 108, 105, 99, 97, 116, 105, 111, 110, 47, 120, 45, 119, 119, 119,
                 45, 102, 111, 114, 109, 45, 117, 114, 108, 101, 110, 99, 111, 100, 101, 100>>

(* ------------------------------------------------------------------ *)
(* str / bytes primitives                                              *)
(* ------------------------------------------------------------------ *)

RECURSIVE Concat(_)
\* the concatenation of a sequence of sequences
Concat(ss) == IF ss = << >> THEN << >> ELSE Head(ss) \o Concat(Tail(ss))

RECURSIVE join(_, _)
\* sep.join(items)
join(sep, items) ==
    IF items = << >> THEN << >>
    ELSE IF Len(items) = 1 THEN items[1]
    ELSE items[1] \o sep \o join(sep, Tail(items))

\* c.lower() of one code point (ASCII letters)
LowerChar(c) == IF c >= 65 /\ c <= 90 THEN c + 32 ELSE c

\* (mutant) the key is used as it is written
lower_as_written(s) == s

\* str.lower()
lower(s) == [i \in 1..Len(s) |-> LowerChar(s[i])]

\* needle in hay (substring test of str)
Contains(hay, needle) ==
    \E i \in 0..(Len(hay) - Len(needle)) :
        \A j \in 1..Len(needle) : hay[i + j] = needle[j]

RECURSIVE str(_)
\* str(n) of a natural number
str(n) == IF n < 10 THEN <<48 + n>> ELSE str(n \div 10) \o <<48 + (n % 10)>>

\* UTF-8 of one code point (one and two byte forms)
EncodeChar(c) == IF c < 128 THEN <<c>> ELSE <<192 + (c \div 64), 128 + (c % 64)>>

\* str.encode()
encode(s) == Concat([i \in 1..Len(s) |-> EncodeChar(s[i])])

RECURSIVE decode(_)
\* bytes.decode(): [ok |-> TRUE, val |-> str], or ok = FALSE for UnicodeDecodeError
decode(b) ==
    IF b = << >> THEN [ok |-> TRUE, val |-> << >>]
    ELSE IF b[1] < 128 THEN
        LET r == decode(Tail(b))
        IN  [ok |-> r.ok, val |-> IF r.ok THEN <<b[1]>> \o r.val ELSE << >>]
    ELSE IF b[1] >= 194 /\ b[1] <= 223 /\ Len(b) >= 2 /\ b[2] >= 128 /\ b[2] <= 191 THEN
        LET r == decode(SubSeq(b, 3, Len(b)))
        IN  [ok |-> r.ok,
             val |-> IF r.ok THEN <<(b[1] - 192) * 64 + (b[2] - 128)>> \o r.val ELSE << >>]
    ELSE [ok |-> FALSE, val |-> << >>]

(* ------------------------------------------------------------------ *)
(* dict: an insertion-ordered sequence of [k, v] entries, keys unique  *)
(* ------------------------------------------------------------------ *)

\* the position of key k in d, 0 when absent
dict_index(d, k) ==
    IF \E i \in 1..Len(d) : d[i].k = k
    THEN CHOOSE i \in 1..Len(d) : d[i].k = k
    ELSE 0

\* k in d
dict_has(d, k) == dict_index(d, k) # 0

\* dict.get(k, default)
dict_get(d, k, default) == IF dict_has(d, k) THEN d[dict_index(d, k)].v ELSE default

\* d[k] = v: an existing key keeps its position
dict_set(d, k, v) ==
    IF dict_has(d, k)
    THEN [d EXCEPT ![dict_index(d, k)] = [k |-> k, v |-> v]]
    ELSE Append(d, [k |-> k, v |-> v])

\* del d[k]
dict_del(d, k) ==
    LET i == dict_index(d, k)
    IN  IF i = 0 THEN d ELSE SubSeq(d, 1, i - 1) \o SubSeq(d, i + 1, Len(d))

RECURSIVE dict_update(_, _)
\* dict.update(other): every entry of other assigned in order
dict_update(d, other) ==
    IF other = << >> THEN d
    ELSE dict_update(dict_set(d, Head(other).k, Head(other).v), Tail(other))

\* the keys of d in order
dict_keys(d) == [i \in 1..Len(d) |-> d[i].k]

(* ------------------------------------------------------------------ *)
(* MultiDict(dict): every value is a list of values                    *)
(* ------------------------------------------------------------------ *)

RECURSIVE MultiDict_from_list(_, _)
\* MultiDict(list of [key, value] pairs), folded onto self
MultiDict_from_list(self, mapping) ==
    IF mapping = << >> THEN self
    ELSE LET key == lower(Head(mapping)[1])
             cur == dict_get(self, key, << >>)
         IN  MultiDict_from_list(dict_set(self, key, Append(cur, Head(mapping)[2])),
                                 Tail(mapping))

RECURSIVE MultiDict_from_dict(_, _)
\* MultiDict(dict): {k.lower(): [v]}
MultiDict_from_dict(self, mapping) ==
    IF mapping = << >> THEN self
    ELSE MultiDict_from_dict(dict_set(self, lower(Head(mapping).k), <<Head(mapping).v>>),
                             Tail(mapping))

RECURSIVE MultiDict_from_lists(_, _)
\* MultiDict(dict) of a dict whose values are lists: {k.lower(): v[:]}
MultiDict_from_lists(self, mapping) ==
    IF mapping = << >> THEN self
    ELSE MultiDict_from_lists(dict_set(self, lower(Head(mapping).k), Head(mapping).v),
                              Tail(mapping))

\* MultiDict.get(key, default): the last value
MultiDict_get(self, key, default) ==
    LET values == dict_get(self, lower(key), <<default>>)
    IN  values[Len(values)]

\* (mutant) a value set takes the place of the values the key holds
MultiDict_setitem_overwrite(self, key, value) == dict_set(self, lower(key), <<value>>)

\* MultiDict.__setitem__(key, value): append
MultiDict_setitem(self, key, value) ==
    dict_set(self, lower(key), Append(dict_get(self, lower(key), << >>), value))

\* MultiDict.setdefault(key, default): the resulting multidict
MultiDict_setdefault(self, key, default) ==
    IF dict_has(self, lower(key)) THEN self ELSE dict_set(self, lower(key), <<default>>)

\* MultiDict._update(other): dict.update, whole value lists replaced
MultiDict__update(self, other) == dict_update(self, other)

\* MultiDict._items(): (key, list of values)
MultiDict__items(self) == self

\* key in self: dict.__contains__, which MultiDict does not override
MultiDict_contains(self, key) == dict_has(self, key)

\* MultiDict.__getitem__(key): the last value; ok = FALSE with the error it raises
MultiDict_getitem(self, key) ==
    IF ~dict_has(self, lower(key)) THEN [ok |-> FALSE, val |-> "KeyError"]
    ELSE LET values == dict_get(self, lower(key), << >>)
         IN  IF values = << >> THEN [ok |-> FALSE, val |-> "IndexError"]
             ELSE [ok |-> TRUE, val |-> values[Len(values)]]

\* MultiDict._get(key, default): all the values, default being a tuple
MultiDict__get(self, key, default) == dict_get(self, lower(key), default)

\* MultiDict.items(): (k.lower(), v[-1]) of every entry whose list is not empty
MultiDict_items(self) == [i \in 1..Len(self) |-> <<lower(self[i].k), self[i].v[Len(self[i].v)]>>]

\* MultiDict.values(): v[-1] of every entry whose list is not empty
MultiDict_values(self) == [i \in 1..Len(self) |-> self[i].v[Len(self[i].v)]]

\* MultiDict._pop(key, default): the list removed, or the default, and the multidict left
MultiDict__pop(self, key, default) ==
    [val |-> dict_get(self, lower(key), default), self |-> dict_del(self, lower(key))]

\* MultiDict.pop(key, default): the last value of a list of several values, else the
\* whole list, removed with its key, or the default
MultiDict_pop(self, key, default) ==
    LET values == dict_get(self, lower(key), << >>)
    IN  IF Len(values) > 1
        THEN [kind |-> "value", val |-> <<values[Len(values)]>>,
              self |-> dict_set(self, lower(key), SubSeq(values, 1, Len(values) - 1))]
        ELSE IF dict_has(self, lower(key))
             THEN [kind |-> "list", val |-> values, self |-> dict_del(self, lower(key))]
             ELSE [kind |-> "default", val |-> <<default>>, self |-> self]

\* MultiDict._setdefault(key, default): the multidict left, default being a tuple
MultiDict__setdefault(self, key, default) ==
    IF dict_has(self, lower(key)) THEN self ELSE dict_set(self, lower(key), default)

\* MultiDict.update(source): new = {}; new.update(source); super().update(MultiDict(new))
MultiDict_update(self, source) ==
    dict_update(self, MultiDict_from_dict(<< >>, dict_update(<< >>, source)))

(* ------------------------------------------------------------------ *)
(* http.HTTPStatus, json, http.cookies.SimpleCookie (standard library) *)
(* ------------------------------------------------------------------ *)

OK == 200
NO_CONTENT == 204
BAD_REQUEST == 400
UNAUTHORIZED == 401
NOT_FOUND == 404
METHOD_NOT_ALLOWED == 405
REQUEST_ENTITY_TOO_LARGE == 413

\* the members of HTTPStatus the model uses; HTTPStatus(n) of another n is a ValueError
HTTPStatus == {OK, NO_CONTENT, BAD_REQUEST, UNAUTHORIZED, NOT_FOUND, METHOD_NOT_ALLOWED,
               REQUEST_ENTITY_TOO_LARGE}

\* HTTPStatus(status).phrase
phrase(status) ==
    CASE status = OK -> <<79, 75>>
      [] status = NO_CONTENT -> <<78, 111, 32, 67, 111, 110, 116, 101, 110, 116>>
      [] status = BAD_REQUEST -> <<66, 97, 100, 32, 82, 101, 113, 117, 101, 115, 116>>
      [] status = UNAUTHORIZED -> <<85, 110, 97, 117, 116, 104, 111, 114, 105, 122, 101, 100>>
      [] status = NOT_FOUND -> <<78, 111, 116, 32, 70, 111, 117, 110, 100>>
      [] status = METHOD_NOT_ALLOWED ->
            <<77, 101, 116, 104, 111, 100, 32, 78, 111, 116, 32, 65, 108, 108, 111, 119, 101, 100>>
      [] status = REQUEST_ENTITY_TOO_LARGE ->
            <<82, 101, 113, 117, 101, 115, 116, 32, 69, 110, 116, 105, 116, 121, 32,
              84, 111, 111, 32, 76, 97, 114, 103, 101>>

\* '"' + s + '"'
Quoted(s) == <<34>> \o s \o <<34>>

\* json.dumps of a mapping of str to str: {"k": "v", ...}
json_dumps(d) ==
    <<123>> \o join(s_comma, [i \in 1..Len(d) |-> Quoted(d[i].k) \o s_colon \o Quoted(d[i].v)])
            \o <<125>>

\* json.loads(text): the model's JSON documents are "{}" and the other texts are
\* rejected with JSONDecodeError (ok = FALSE)
json_loads(text) ==
    IF text = <<123, 125>> THEN [ok |-> TRUE, val |-> << >>] ELSE [ok |-> FALSE, val |-> << >>]

\* "sid=1"
s_sid_cookie == <<115, 105, 100, 61, 49>>
\* a cookie header the cookie jar rejects
s_bad_cookie == <<44, 61>>

\* SimpleCookie.load(rawdata): the jar (name, value entries), or ok = FALSE for CookieError
SimpleCookie_load(rawdata) ==
    IF rawdata = s_bad_cookie THEN [ok |-> FALSE, val |-> << >>]
    ELSE IF rawdata = s_sid_cookie
         THEN [ok |-> TRUE, val |-> <<[k |-> <<115, 105, 100>>, v |-> <<49>>]>>]
         ELSE [ok |-> TRUE, val |-> << >>]

\* SimpleCookie.output().splitlines(): one "Set-Cookie: name=value" line per cookie
SimpleCookie_output(cookies) ==
    [i \in 1..Len(cookies) |-> s_Set_Cookie \o cookies[i].k \o <<61>> \o cookies[i].v]

\* header.split(": ", maxsplit=1)[1]
split_colon(header) ==
    LET i == CHOOSE i \in 1..Len(header) :
                 /\ SubSeq(header, i, i + 1) = s_colon
                 /\ \A j \in 1..(i - 1) : SubSeq(header, j, j + 1) # s_colon
    IN  SubSeq(header, i + 2, Len(header))

(* ------------------------------------------------------------------ *)
(* Response                                                            *)
(* ------------------------------------------------------------------ *)

\* Response(status, headers=headers, cookies=cookies, body=body); headers is a dict
Response(status, headers, cookies, body) ==
    [status |-> status,
     description |-> IF status \in HTTPStatus THEN phrase(status) ELSE s_empty,
     headers |-> MultiDict_setdefault(MultiDict_from_dict(<< >>, headers), s_content_type,
                                      MediaType_HTML \o s_charset),
     cookies |-> cookies,
     body |-> body]

\* the values a handler or a hook may return, by Python type
RetNone == [kind |-> "none", val |-> 0]
RetInt(n) == [kind |-> "int", val |-> n]
RetStr(s) == [kind |-> "str", val |-> s]
RetBytes(b) == [kind |-> "bytes", val |-> b]
RetDict(d) == [kind |-> "dict", val |-> d]
RetResponse(r) == [kind |-> "response", val |-> r]
\* a value of another type (a list, a float), with its truth value
RetOther(truth) == [kind |-> "other", val |-> truth]

\* bool(any), as `if ret := ...` tests it
truthy(any) ==
    CASE any.kind = "none" -> FALSE
      [] any.kind = "int" -> any.val # 0
      [] any.kind \in {"str", "bytes", "dict"} -> any.val # << >>
      [] any.kind = "response" -> TRUE
      [] any.kind = "other" -> any.val

\* (mutant) the status code returned is not handed to the Response
from_any_default_status(any) ==
    CASE any.kind = "int" ->
            IF any.val \in HTTPStatus
            THEN [ok |-> TRUE, val |-> Response(OK, << >>, << >>, encode(phrase(any.val)))]
            ELSE [ok |-> FALSE, val |-> "ValueError"]
      [] any.kind = "str" -> [ok |-> TRUE, val |-> Response(OK, << >>, << >>, encode(any.val))]
      [] any.kind = "bytes" -> [ok |-> TRUE, val |-> Response(OK, << >>, << >>, any.val)]
      [] any.kind = "dict" ->
            [ok |-> TRUE,
             val |-> Response(OK, <<[k |-> s_content_type, v |-> MediaType_JSON]>>, << >>,
                              encode(json_dumps(any.val)))]
      [] any.kind = "response" -> [ok |-> TRUE, val |-> any.val]
      [] any.kind = "none" -> [ok |-> TRUE, val |-> Response(NO_CONTENT, << >>, << >>, << >>)]
      [] OTHER -> [ok |-> FALSE, val |-> "TypeError"]

\* Response.from_any(any): [ok |-> TRUE, val |-> response], or ok = FALSE with the error raised
from_any(any) ==
    CASE any.kind = "int" ->
            IF any.val \in HTTPStatus
            THEN [ok |-> TRUE, val |-> Response(any.val, << >>, << >>, encode(phrase(any.val)))]
            ELSE [ok |-> FALSE, val |-> "ValueError"]
      [] any.kind = "str" -> [ok |-> TRUE, val |-> Response(OK, << >>, << >>, encode(any.val))]
      [] any.kind = "bytes" -> [ok |-> TRUE, val |-> Response(OK, << >>, << >>, any.val)]
      [] any.kind = "dict" ->
            [ok |-> TRUE,
             val |-> Response(OK, <<[k |-> s_content_type, v |-> MediaType_JSON]>>, << >>,
                              encode(json_dumps(any.val)))]
      [] any.kind = "response" -> [ok |-> TRUE, val |-> any.val]
      [] any.kind = "none" -> [ok |-> TRUE, val |-> Response(NO_CONTENT, << >>, << >>, << >>)]
      [] OTHER -> [ok |-> FALSE, val |-> "TypeError"]

(* ------------------------------------------------------------------ *)
(* The Application under test                                          *)
(* ------------------------------------------------------------------ *)

\* "PUT"
PUT == <<80, 85, 84>>
\* path segments "items", "42", "x", "y" and the group name "id"
seg_items == <<105, 116, 101, 109, 115>>
seg_42 == <<52, 50>>
seg_x == <<120>>
seg_y == <<121>>
s_id == <<105, 100>>

Lit(seg) == [kind |-> "lit", val |-> seg]
Group(name) == [kind |-> "group", val |-> name]

\* a key of the route table: the raw pattern (a str), or re.compile of it
Raw(pattern) == [re |-> pattern, compiled |-> FALSE]

\* re.compile(k)
re_compile(k) == [re |-> k.re, compiled |-> TRUE]

\* route.fullmatch(path) of a compiled pattern: one token per path segment, a literal
\* matches its own segment and a named group any segment
fullmatch(route, path) ==
    /\ Len(route.re) = Len(path)
    /\ \A i \in 1..Len(path) : route.re[i].kind = "lit" => route.re[i].val = path[i]

\* the positions of the named groups of a pattern
GroupPositions(route) == {i \in 1..Len(route.re) : route.re[i].kind = "group"}

RECURSIVE groupdict_from(_, _, _)
groupdict_from(route, path, i) ==
    IF i > Len(route.re) THEN << >>
    ELSE IF i \in GroupPositions(route)
         THEN <<[k |-> route.re[i].val, v |-> path[i]]>> \o groupdict_from(route, path, i + 1)
         ELSE groupdict_from(route, path, i + 1)

\* matches.groupdict()
groupdict(route, path) == groupdict_from(route, path, 1)

\* Application(routes=..., startup=..., shutdown=..., before=..., after=..., max_content=...):
\* /items/(?P<id>..) and /items/42 overlap on the path /items/42
RoutesArg ==
    << [k |-> Raw(<<Lit(seg_items), Group(s_id)>>),
        v |-> <<[k |-> POST, v |-> "create_item"], [k |-> PUT, v |-> "replace_item"]>>],
       [k |-> Raw(<<Lit(seg_items), Lit(seg_42)>>),
        v |-> <<[k |-> GET, v |-> "get_42"], [k |-> POST, v |-> "post_42"]>>],
       [k |-> Raw(<<Lit(seg_x)>>),
        v |-> <<[k |-> GET, v |-> "get_x"]>>] >>

\* the decorator of Application.route(path, methods), applied to func:
\* self._routes.setdefault(path, {}).update({method: func for method in methods})
route(routes, path, methods, func) ==
    LET held == dict_get(routes, path, << >>)
        added == [i \in 1..Len(methods) |-> [k |-> methods[i], v |-> func]]
    IN  dict_set(routes, path, dict_update(held, added))

\* Application.__init__
Application(routes, startup, shutdown, before, after, serializer, max_content) ==
    [routes |-> routes,
     startup |-> startup,
     shutdown |-> shutdown,
     before |-> before,
     after |-> after,
     serializer |-> serializer,
     max_content |-> max_content]

\* the application the model is run with
TheApp ==
    Application(RoutesArg, <<"open_db", "warm_up">>, <<"flush", "close_db">>,
                <<"counter", "auth">>, <<"logger", "stamp">>, "json.dumps", MaxContent)

\* an application made to be mounted, with hooks of its own and a larger max_content:
\* utils = Application(...) with @utils.route("/42") and @utils.route("/y")
SubApp ==
    Application(<< [k |-> Raw(<<Lit(seg_42)>>), v |-> <<[k |-> GET, v |-> "sub_42"]>>],
                   [k |-> Raw(<<Lit(seg_y)>>), v |-> <<[k |-> GET, v |-> "sub_y"]>>] >>,
                <<"sub_open">>, <<"sub_close">>, <<"sub_before">>, <<"sub_after">>,
                "json.dumps", MaxContent + 1)

\* self.mount(other, prefix): the four lists are extended in place, then
\* self._routes.update({prefix + k: v for k, v in other._routes.items()}), which fails with
\* TypeError on a key of other that is compiled (prefix + k of a str and a Pattern), then
\* the larger of the two max_content
mount(self, other, prefix) ==
    LET extended == [self EXCEPT !.startup = @ \o other.startup,
                                 !.shutdown = @ \o other.shutdown,
                                 !.before = @ \o other.before,
                                 !.after = @ \o other.after]
        prefixed == [i \in 1..Len(other.routes) |->
                        [k |-> Raw(prefix \o other.routes[i].k.re), v |-> other.routes[i].v]]
    IN  IF \E i \in DOMAIN other.routes : other.routes[i].k.compiled
        THEN extended
        ELSE [extended EXCEPT !.routes = dict_update(@, prefixed),
                              !.max_content = IF @ >= other.max_content
                                              THEN @ ELSE other.max_content]

\* Application(..., serializer=compact), compact being
\* functools.partial(json.dumps, separators=(",", ":"))
CustomApp == [TheApp EXCEPT !.serializer = "compact"]

(* ------------------------------------------------------------------ *)
(* State                                                               *)
(* ------------------------------------------------------------------ *)

VARIABLES
    app,        \* the Application instance (self._routes, self._startup, ...)
    heap,       \* the dict objects that hold state: "base" is scope["state"]
    lifespan,   \* the call of the application on the lifespan scope
    tx,         \* the calls of the application on http scopes, by transaction
    md,         \* a MultiDict that a program uses on its own
    ops,        \* the operations applied to md, in order
    norm        \* a value given to Response.from_any, and what came of it

\* the variables of a program that uses MultiDict and Response.from_any on their own
lib == <<md, ops, norm>>

vars == <<app, heap, lifespan, tx, lib>>

\* the concurrent http transactions
Tx == {1, 2}

\* the state dict objects: the host's scope["state"], and one per transaction
Objects == {"base"} \cup {"copy1", "copy2"}

\* what a startup, shutdown, hook or handler function does to the state dict it is given
StateEffects ==
    {[op |-> "none", val |-> 0], [op |-> "set", val |-> 1], [op |-> "set", val |-> 2],
     [op |-> "del", val |-> 0]}

\* the dict after state["k"] = val, or del state["k"]
apply_effect(d, e) ==
    CASE e.op = "none" -> d
      [] e.op = "set" -> dict_set(d, "k", e.val)
      [] e.op = "del" -> dict_del(d, "k")

(* ------------------------------------------------------------------ *)
(* scope["type"] == "lifespan"                                         *)
(* ------------------------------------------------------------------ *)

\* send({"type": type, "message": message})
lifespan_send(l, type, message) ==
    [l EXCEPT !.sent = Append(@, [type |-> type, message |-> message])]

\* what a startup or shutdown function does: it returns, or raises an Exception
NoError == [type |-> "", text |-> ""]
LifespanOutcomes ==
    {NoError, [type |-> "RuntimeError", text |-> "no database"], [type |-> "KeyError", text |-> "'k'"]}

\* f"{type(e).__name__}: {e}"
failure_message(e) == e.type \o ": " \o e.text

\* (mutant) the loop goes on after lifespan.startup.failed
startup_failed_continue(l, e) ==
    [lifespan_send(l, "lifespan.startup.failed", failure_message(e)) EXCEPT !.idx = @ + 1]

\* except Exception as e: send lifespan.startup.failed; break
startup_failed(l, e) ==
    [lifespan_send(l, "lifespan.startup.failed", failure_message(e)) EXCEPT !.pc = "returned"]

\* (mutant) lifespan.shutdown.complete follows lifespan.shutdown.failed
shutdown_failed_complete(l, e) ==
    [lifespan_send(lifespan_send(l, "lifespan.shutdown.failed", failure_message(e)),
                   "lifespan.shutdown.complete", "") EXCEPT !.pc = "returned"]

\* except Exception as e: send lifespan.shutdown.failed; break
shutdown_failed(l, e) ==
    [lifespan_send(l, "lifespan.shutdown.failed", failure_message(e)) EXCEPT !.pc = "returned"]

\* self._routes = {re.compile(k): v for k, v in self._routes.items()}
compile_routes(routes) == [i \in 1..Len(routes) |-> [k |-> re_compile(routes[i].k), v |-> routes[i].v]]

\* the host sends a lifespan event only while it serves no http transaction, and serves
\* http transactions only while the lifespan call waits for an event
Quiet == \A t \in DOMAIN tx : tx[t].pc = "idle"

\* event = await receive(): lifespan.startup (the host sends it once, first)
ReceiveStartup ==
    /\ lifespan.pc = "receive"
    /\ Quiet
    /\ lifespan.received = << >>
    /\ lifespan' = [lifespan EXCEPT !.pc = "startup", !.idx = 1,
                                    !.received = Append(@, "lifespan.startup")]
    /\ UNCHANGED <<app, heap, tx, lib>>

\* await asyncfy(func, state) for the next func of self._startup
StartupCall ==
    /\ lifespan.pc = "startup"
    /\ lifespan.idx <= Len(app.startup)
    /\ \E e \in StateEffects, o \in LifespanOutcomes :
         LET func == app.startup[lifespan.idx]
             l == [lifespan EXCEPT !.calls = Append(@, [func |-> func, error |-> o])]
         IN  /\ heap' = [heap EXCEPT !["base"] = apply_effect(@, e)]
             /\ lifespan' = IF o = NoError THEN [l EXCEPT !.idx = @ + 1]
                            ELSE startup_failed(l, o)
    /\ UNCHANGED <<app, tx, lib>>

\* the loop over self._startup is over: compile the routes, send lifespan.startup.complete
StartupComplete ==
    /\ lifespan.pc = "startup"
    /\ lifespan.idx > Len(app.startup)
    /\ app' = [app EXCEPT !.routes = compile_routes(@)]
    /\ lifespan' = [lifespan_send(lifespan, "lifespan.startup.complete", "") EXCEPT
                        !.pc = "receive"]
    /\ UNCHANGED <<heap, tx, lib>>

\* the routes that may be registered while the application runs
MaxRoutes == 4

\* @app.route("/y") or @app.route("/x") decorates a function between two events: the
\* path is a str, whether or not the keys of the table have been compiled
Register ==
    /\ lifespan.pc = "receive"
    /\ Quiet
    /\ \E pattern \in {<<Lit(seg_y)>>, <<Lit(seg_x)>>} :
         LET routes == route(app.routes, Raw(pattern), <<GET>>, "late")
         IN  /\ Len(routes) <= MaxRoutes
             /\ app' = [app EXCEPT !.routes = routes]
    /\ UNCHANGED <<heap, lifespan, tx, lib>>

\* the times an application may be mounted
MaxMounts == 1

\* app.mount(utils, prefix="") or app.mount(utils, prefix="/items"), between two events
Mount ==
    /\ lifespan.pc = "receive"
    /\ Quiet
    /\ Len(app.startup) < Len(TheApp.startup) + MaxMounts * Len(SubApp.startup)
    /\ \E prefix \in {<< >>, <<Lit(seg_items)>>} : app' = mount(app, SubApp, prefix)
    /\ UNCHANGED <<heap, lifespan, tx, lib>>

\* event = await receive(): lifespan.shutdown
ReceiveShutdown ==
    /\ lifespan.pc = "receive"
    /\ Quiet
    /\ lifespan' = [lifespan EXCEPT !.pc = "shutdown", !.idx = 1,
                                    !.received = Append(@, "lifespan.shutdown")]
    /\ UNCHANGED <<app, heap, tx, lib>>

\* await asyncfy(func, state) for the next func of self._shutdown
ShutdownCall ==
    /\ lifespan.pc = "shutdown"
    /\ lifespan.idx <= Len(app.shutdown)
    /\ \E e \in StateEffects, o \in LifespanOutcomes :
         LET func == app.shutdown[lifespan.idx]
             l == [lifespan EXCEPT !.calls = Append(@, [func |-> func, error |-> o])]
         IN  /\ heap' = [heap EXCEPT !["base"] = apply_effect(@, e)]
             /\ lifespan' = IF o = NoError THEN [l EXCEPT !.idx = @ + 1]
                            ELSE shutdown_failed(l, o)
    /\ UNCHANGED <<app, tx, lib>>

\* the loop over self._shutdown is over: send lifespan.shutdown.complete; break
ShutdownComplete ==
    /\ lifespan.pc = "shutdown"
    /\ lifespan.idx > Len(app.shutdown)
    /\ lifespan' = [lifespan_send(lifespan, "lifespan.shutdown.complete", "") EXCEPT
                        !.pc = "returned"]
    /\ UNCHANGED <<app, heap, tx, lib>>

LifespanNext ==
    \/ ReceiveStartup
    \/ StartupCall
    \/ StartupComplete
    \/ ReceiveShutdown
    \/ ShutdownCall
    \/ ShutdownComplete

(* ------------------------------------------------------------------ *)
(* scope["type"] == "http": the inputs                                 *)
(* ------------------------------------------------------------------ *)

\* scope["method"]
Methods == {GET, POST}

\* scope["path"], as its segments: /items/42, /x, /y
Paths == {<<seg_items, seg_42>>, <<seg_x>>, <<seg_y>>}

\* the http scopes the host calls the application with: every method and path without
\* headers, and every list of headers on POST /items/42
Scope(method, path, headers) == [method |-> method, path |-> path, headers |-> headers]

\* scope["headers"]: lists of [name, value] byte pairs
RawHeaders ==
    { << >>,
      << <<encode(s_Content_Type), encode(MediaType_JSON)>> >>,
      << <<encode(s_Content_Type), encode(URL_ENCODED)>>,
         <<encode(s_cookie), encode(s_sid_cookie)>> >>,
      << << <<255>>, << >> >> >>,
      << <<encode(s_cookie), encode(s_bad_cookie)>> >> }

Scopes ==
    {Scope(m, p, << >>) : m \in Methods, p \in Paths}
        \cup {Scope(POST, <<seg_items, seg_42>>, h) : h \in RawHeaders}

\* event["body"] of a chunk: b"", b"{}", b"\xff"
Payloads == { << >>, <<123, 125>>, <<255>> }

\* what a call of a hook or a handler does: return a value, or raise one
\* (the outcomes a function may have are listed as sequences)
Return(val) == [how |-> "return", val |-> val]
Raise(val) == [how |-> "raise", val |-> val]
\* an exception that is not a Response
Failure == [kind |-> "exception", val |-> "RuntimeError"]

\* the class of an outcome, as the log of calls keeps it
how(outcome) ==
    IF outcome.how = "raise"
    THEN IF outcome.val.kind = "response" THEN "raise_response" ELSE "raise_error"
    ELSE IF truthy(outcome.val) THEN "return_truthy" ELSE "return_falsy"

\* Response(401), as a hook raises or returns it
Response401 == Response(UNAUTHORIZED, << >>, << >>, << >>)

\* Response(body=b"x") with the cookie sid=1 set on it
ResponseCookie == Response(OK, << >>, <<[k |-> <<115, 105, 100>>, v |-> <<49>>]>>, <<120>>)

\* Response(headers={"set-cookie": "a=1", "content-length": "0"}): headers that the
\* handler has set itself
ResponseDirect ==
    Response(OK, <<[k |-> s_set_cookie, v |-> <<97, 61, 49>>],
                   [k |-> s_content_length, v |-> <<48>>]>>, << >>, << >>)

BeforeOutcomes ==
    << Return(RetNone), Return(RetInt(0)), Return(RetInt(UNAUTHORIZED)), Return(RetOther(TRUE)),
      Raise(RetResponse(Response401)), Raise(Failure) >>

HandlerOutcomes(request) ==
    << Return(RetNone), Return(RetStr(<<120>>)), Return(RetDict(request.params)),
      Return(RetResponse(ResponseCookie)), Return(RetResponse(ResponseDirect)),
      Return(RetOther(TRUE)), Raise(RetResponse(Response401)), Raise(Failure) >>

AfterOutcomes ==
    << Return(RetNone), Return(RetInt(0)), Return(RetStr(<<120>>)), Return(RetOther(TRUE)),
      Raise(RetResponse(Response401)), Raise(Failure) >>

(* ------------------------------------------------------------------ *)
(* scope["type"] == "http": Request and the steps of the pipeline      *)
(* ------------------------------------------------------------------ *)

\* Request(method=..., path=..., state=...)
Request(method, path, state) ==
    [method |-> method,
     path |-> path,
     params |-> << >>,
     headers |-> << >>,
     cookies |-> << >>,
     body |-> << >>,
     json |-> [isset |-> FALSE, val |-> << >>],
     form |-> << >>,
     state |-> state]

\* self.state = state or {}: the dict given, or a new one when the dict given is empty
state_or_new(state, value, new) == IF value = << >> THEN new ELSE state

\* no request yet, no response yet
NoRequest == Request(s_empty, << >>, "base")
NoResponse == [status |-> 0, description |-> s_empty, headers |-> << >>, cookies |-> << >>,
               body |-> << >>]

\* a transaction that has not started; routed and matched tell whether the loop over the
\* routes has run and which route matched, calls is the log of the functions called, sent
\* the events sent, ret the last value a function returned or raised, scope_headers the
\* scope["headers"] the application was called with
IdleTx ==
    [pc |-> "idle", request |-> NoRequest, response |-> NoResponse, idx |-> 0, chunks |-> 0,
     routed |-> FALSE, matched |-> 0, func |-> "", ret |-> RetNone, calls |-> << >>,
     sent |-> << >>, error |-> "", received |-> << >>, scope_headers |-> << >>]

\* the dict object that state.copy() creates for transaction t
Fresh(t) == IF t = 1 THEN "copy1" ELSE "copy2"

\* (mutant) the Request is given the state of the scope itself
state_copy_alias(state, fresh) == state

\* state.copy(): the object the Request is given, a new one
state_copy(state, fresh) == fresh

\* raise Response(...) inside the try, or response = ... at its end: the after-chain is next
early_response(x, response) == [x EXCEPT !.response = response, !.pc = "after", !.idx = 1]

\* (mutant) an exception that is not a Response is answered with a 500 response
propagate_caught(x, error) ==
    [x EXCEPT !.response = [status |-> 500, description |-> s_empty, headers |-> << >>,
                            cookies |-> << >>, body |-> << >>],
              !.pc = "after", !.idx = 1, !.error = error]

\* an exception that is not a Response leaves __call__
propagate(x, error) == [x EXCEPT !.pc = "raised", !.error = error]

\* (mutant) the limit is taken to be exclusive
too_large_ge(body, max_content) == Len(body) >= max_content

\* len(request.body) > self._max_content
too_large(body, max_content) == Len(body) > max_content

\* [[k.decode(), v.decode()] for k, v in scope["headers"]]
decode_headers(raw) ==
    [ok |-> \A i \in 1..Len(raw) : decode(raw[i][1]).ok /\ decode(raw[i][2]).ok,
     val |-> [i \in 1..Len(raw) |-> <<decode(raw[i][1]).val, decode(raw[i][2]).val>>]]

\* (mutant) the UnicodeDecodeError of a header is not caught
read_headers_uncaught(x, raw) ==
    LET d == decode_headers(raw)
        headers == MultiDict_from_list(<< >>, d.val)
        jar == SimpleCookie_load(MultiDict_get(headers, s_cookie, s_empty))
    IN  IF ~d.ok THEN propagate(x, "UnicodeDecodeError")
        ELSE IF ~jar.ok
             THEN early_response([x EXCEPT !.request.headers = headers],
                                 Response(BAD_REQUEST, << >>, << >>, << >>))
             ELSE [x EXCEPT !.request.headers = headers, !.request.cookies = jar.val,
                            !.pc = "receive"]

\* (mutant) after a UnicodeDecodeError of a header the before-chain is run, with the 400
\* response pending
read_headers_then_before(x, raw) ==
    LET d == decode_headers(raw)
        headers == MultiDict_from_list(<< >>, d.val)
        jar == SimpleCookie_load(MultiDict_get(headers, s_cookie, s_empty))
    IN  IF ~d.ok THEN [x EXCEPT !.response = Response(BAD_REQUEST, << >>, << >>, << >>),
                                !.pc = "before", !.idx = 1]
        ELSE IF ~jar.ok
             THEN early_response([x EXCEPT !.request.headers = headers],
                                 Response(BAD_REQUEST, << >>, << >>, << >>))
             ELSE [x EXCEPT !.request.headers = headers, !.request.cookies = jar.val,
                            !.pc = "receive"]

\* the first part of the try block: the headers and the cookies of the request
read_headers(x, raw) ==
    LET d == decode_headers(raw)
        headers == MultiDict_from_list(<< >>, d.val)
        jar == SimpleCookie_load(MultiDict_get(headers, s_cookie, s_empty))
    IN  IF ~d.ok THEN early_response(x, Response(BAD_REQUEST, << >>, << >>, << >>))
        ELSE IF ~jar.ok
             THEN early_response([x EXCEPT !.request.headers = headers],
                                 Response(BAD_REQUEST, << >>, << >>, << >>))
             ELSE [x EXCEPT !.request.headers = headers, !.request.cookies = jar.val,
                            !.pc = "receive"]

\* the application is called on an http scope
TxBegin(t) ==
    /\ tx[t].pc = "idle"
    /\ lifespan.pc = "receive"
    /\ \E scope \in Scopes :
         LET ref == state_or_new(state_copy("base", Fresh(t)), heap["base"], Fresh(t))
             x == [tx[t] EXCEPT !.request = Request(scope.method, scope.path, ref),
                                !.scope_headers = scope.headers]
         IN  /\ heap' = [heap EXCEPT ![ref] = heap["base"]]
             /\ tx' = [tx EXCEPT ![t] = read_headers(x, scope.headers)]
    /\ UNCHANGED <<app, lifespan, lib>>

\* parse_qs(unquote(body)): the fields "name=value" of the body, as a dict of lists
parse_qs(body) ==
    IF \E i \in 1..Len(body) : body[i] = 61
    THEN LET i == CHOOSE i \in 1..Len(body) :
                      body[i] = 61 /\ \A j \in 1..(i - 1) : body[j] # 61
         IN  IF i = 1 \/ i = Len(body) THEN << >>
             ELSE <<[k |-> SubSeq(body, 1, i - 1), v |-> <<SubSeq(body, i + 1, Len(body))>>]>>
    ELSE << >>

\* (mutant) a JSON body that is not UTF-8 is left undecoded and the pipeline goes on
content_decode_lenient(x) ==
    LET content_type == MultiDict_get(x.request.headers, s_content_type, s_empty)
    IN  IF Contains(content_type, MediaType_JSON)
        THEN IF decode(x.request.body).ok
             THEN [x EXCEPT !.pc = "json_loads"]
             ELSE [x EXCEPT !.pc = "before", !.idx = 1]
        ELSE IF Contains(content_type, URL_ENCODED)
             THEN [x EXCEPT !.pc = "parse_qs"]
             ELSE [x EXCEPT !.pc = "before", !.idx = 1]

\* the body is complete: look at the content type
content_decode(x) ==
    LET content_type == MultiDict_get(x.request.headers, s_content_type, s_empty)
    IN  IF Contains(content_type, MediaType_JSON)
        THEN IF decode(x.request.body).ok
             THEN [x EXCEPT !.pc = "json_loads"]
             ELSE early_response(x, Response(BAD_REQUEST, << >>, << >>, << >>))
        ELSE IF Contains(content_type, URL_ENCODED)
             THEN [x EXCEPT !.pc = "parse_qs"]
             ELSE [x EXCEPT !.pc = "before", !.idx = 1]

\* (mutant) the payload is put before the body received so far
receive_chunk_prepend(x, max_content, body, more_body) ==
    LET y == [x EXCEPT !.request.body = body \o @, !.chunks = @ + 1,
                       !.received = Append(@, [body |-> body, more_body |-> more_body])]
    IN  IF too_large(y.request.body, max_content)
        THEN early_response(y, Response(REQUEST_ENTITY_TOO_LARGE, << >>, << >>, << >>))
        ELSE IF more_body THEN y ELSE content_decode(y)

\* one turn of the body loop, on the chunk event (body, more_body); received is the log
\* of the chunk events
receive_chunk(x, max_content, body, more_body) ==
    LET y == [x EXCEPT !.request.body = @ \o body, !.chunks = @ + 1,
                       !.received = Append(@, [body |-> body, more_body |-> more_body])]
    IN  IF too_large(y.request.body, max_content)
        THEN early_response(y, Response(REQUEST_ENTITY_TOO_LARGE, << >>, << >>, << >>))
        ELSE IF more_body THEN y ELSE content_decode(y)

\* event = await receive() in the body loop
TxReceive(t) ==
    /\ tx[t].pc = "receive"
    /\ \E body \in Payloads, more_body \in BOOLEAN :
         /\ tx[t].chunks + 1 >= MaxChunks => ~more_body
         /\ tx' = [tx EXCEPT ![t] = receive_chunk(tx[t], app.max_content, body, more_body)]
    /\ UNCHANGED <<app, heap, lifespan, lib>>

\* request.json = await to_thread(json.loads, request.body.decode())
TxJson(t) ==
    /\ tx[t].pc = "json_loads"
    /\ LET r == json_loads(decode(tx[t].request.body).val)
       IN  tx' = [tx EXCEPT ![t] =
                    IF r.ok
                    THEN [tx[t] EXCEPT !.request.json = [isset |-> TRUE, val |-> r.val],
                                       !.pc = "before", !.idx = 1]
                    ELSE early_response(tx[t], Response(BAD_REQUEST, << >>, << >>, << >>))]
    /\ UNCHANGED <<app, heap, lifespan, lib>>

\* request.form = MultiDict(await to_thread(parse_qs, unquote(request.body)))
TxForm(t) ==
    /\ tx[t].pc = "parse_qs"
    /\ tx' = [tx EXCEPT ![t] = [tx[t] EXCEPT !.request.form =
                                                 MultiDict_from_lists(<< >>, parse_qs(tx[t].request.body)),
                                             !.pc = "before", !.idx = 1]]
    /\ UNCHANGED <<app, heap, lifespan, lib>>

\* the record of one call of a hook or a handler: the chain, the function, how it ended
Call(chain, func, outcome) == [chain |-> chain, func |-> func, how |-> how(outcome)]

\* the call of func is logged, and ret is what it returned or raised
called(x, chain, func, outcome) ==
    [x EXCEPT !.calls = Append(@, Call(chain, func, outcome)), !.ret = outcome.val]

\* raise Response.from_any(ret): the Response is raised, or from_any's own error
raise_from_any(x, ret, caught) ==
    LET r == from_any(ret)
    IN  IF r.ok THEN caught ELSE propagate(x, r.val)

\* (mutant) the value a before-hook returns is dropped and the chain goes on
before_step_continue(x, outcome) ==
    IF outcome.how = "raise"
    THEN IF outcome.val.kind = "response"
         THEN early_response(x, outcome.val.val)
         ELSE propagate(x, outcome.val.val)
    ELSE [x EXCEPT !.idx = @ + 1]

\* for func in self._before: if ret := await asyncfy(func, request): raise Response.from_any(ret)
before_step(x, outcome) ==
    IF outcome.how = "raise"
    THEN IF outcome.val.kind = "response"
         THEN early_response(x, outcome.val.val)
         ELSE propagate(x, outcome.val.val)
    ELSE IF truthy(outcome.val)
         THEN raise_from_any(x, outcome.val, early_response(x, from_any(outcome.val).val))
         ELSE [x EXCEPT !.idx = @ + 1]

\* the next before-hook is called
TxBefore(t) ==
    /\ tx[t].pc = "before"
    /\ tx[t].idx <= Len(app.before)
    /\ \E o \in DOMAIN BeforeOutcomes, e \in StateEffects :
         LET outcome == BeforeOutcomes[o]
             func == app.before[tx[t].idx]
             x == called(tx[t], "before", func, outcome)
         IN  /\ heap' = [heap EXCEPT ![x.request.state] = apply_effect(@, e)]
             /\ tx' = [tx EXCEPT ![t] = before_step(x, outcome)]
    /\ UNCHANGED <<app, lifespan, lib>>

RECURSIVE resolve_from(_, _, _)
\* for route, methods in self._routes.items(): if matches := route.fullmatch(request.path):
\* the position of the first route that matches, 0 when none does, -1 when the loop comes
\* to a key that is still a str (it has no fullmatch: AttributeError)
resolve_from(routes, path, i) ==
    IF i > Len(routes) THEN 0
    ELSE IF ~routes[i].k.compiled THEN -1
    ELSE IF fullmatch(routes[i].k, path) THEN i
    ELSE resolve_from(routes, path, i + 1)

\* (mutant) the last route that matches is taken
resolve_last(routes, path) ==
    LET M == {i \in DOMAIN routes : routes[i].k.compiled /\ fullmatch(routes[i].k, path)}
    IN  IF \E i \in DOMAIN routes : ~routes[i].k.compiled THEN -1
        ELSE IF M = {} THEN 0
        ELSE CHOOSE i \in M : \A j \in M : j <= i

resolve(routes, path) == resolve_from(routes, path, 1)

\* (mutant) the allow header lists the methods without a separator
method_not_allowed_unseparated(methods) ==
    LET response == Response(METHOD_NOT_ALLOWED, << >>, << >>, << >>)
    IN  [response EXCEPT !.headers = MultiDict_setitem(@, s_allow, join(s_empty, dict_keys(methods)))]

\* response = Response(HTTPStatus.METHOD_NOT_ALLOWED); response.headers["allow"] = ", ".join(methods)
method_not_allowed(methods) ==
    LET response == Response(METHOD_NOT_ALLOWED, << >>, << >>, << >>)
    IN  [response EXCEPT !.headers = MultiDict_setitem(@, s_allow, join(s_comma, dict_keys(methods)))]

\* response = Response(HTTPStatus.NOT_FOUND)
not_found == Response(NOT_FOUND, << >>, << >>, << >>)

\* the loop over the routes, up to the call of the handler
route_step(x0, routes) ==
    LET i == resolve(routes, x0.request.path)
        x == [x0 EXCEPT !.routed = TRUE, !.matched = IF i > 0 THEN i ELSE 0]
    IN  IF i = -1 THEN propagate(x, "AttributeError")
        ELSE IF i = 0 THEN early_response(x, not_found)
        ELSE LET y == [x EXCEPT !.request.params = groupdict(routes[i].k, x.request.path)]
                 methods == routes[i].v
             IN  IF dict_has(methods, x.request.method)
                 THEN [y EXCEPT !.pc = "handler", !.func = dict_get(methods, x.request.method, "")]
                 ELSE early_response(y, method_not_allowed(methods))

\* the before-chain is over: resolve the route
TxRoute(t) ==
    /\ tx[t].pc = "before"
    /\ tx[t].idx > Len(app.before)
    /\ tx' = [tx EXCEPT ![t] = route_step(tx[t], app.routes)]
    /\ UNCHANGED <<app, heap, lifespan, lib>>

\* ret = await asyncfy(func, request); response = Response.from_any(ret)
handler_step(x, outcome) ==
    IF outcome.how = "raise"
    THEN IF outcome.val.kind = "response"
         THEN early_response(x, outcome.val.val)
         ELSE propagate(x, outcome.val.val)
    ELSE raise_from_any(x, outcome.val, early_response(x, from_any(outcome.val).val))

\* the route handler is called
TxHandler(t) ==
    /\ tx[t].pc = "handler"
    /\ \E o \in DOMAIN HandlerOutcomes(tx[t].request), e \in StateEffects :
         LET outcome == HandlerOutcomes(tx[t].request)[o]
             x == called(tx[t], "handler", tx[t].func, outcome)
         IN  /\ heap' = [heap EXCEPT ![x.request.state] = apply_effect(@, e)]
             /\ tx' = [tx EXCEPT ![t] = handler_step(x, outcome)]
    /\ UNCHANGED <<app, lifespan, lib>>

\* except Response as early_response: response = early_response (the after-chain is left)
replace_response(x, response) == [x EXCEPT !.response = response, !.pc = "finalize"]

\* (mutant) the response an after-hook returns is adopted and the chain goes on
after_step_continue(x, outcome) ==
    IF outcome.how = "raise"
    THEN IF outcome.val.kind = "response"
         THEN replace_response(x, outcome.val.val)
         ELSE propagate(x, outcome.val.val)
    ELSE IF truthy(outcome.val)
         THEN raise_from_any(x, outcome.val,
                             [x EXCEPT !.response = from_any(outcome.val).val, !.idx = @ + 1])
         ELSE [x EXCEPT !.idx = @ + 1]

\* for func in self._after: if ret := await asyncfy(func, request, response): raise ...
after_step(x, outcome) ==
    IF outcome.how = "raise"
    THEN IF outcome.val.kind = "response"
         THEN replace_response(x, outcome.val.val)
         ELSE propagate(x, outcome.val.val)
    ELSE IF truthy(outcome.val)
         THEN raise_from_any(x, outcome.val, replace_response(x, from_any(outcome.val).val))
         ELSE [x EXCEPT !.idx = @ + 1]

\* the next after-hook is called
TxAfter(t) ==
    /\ tx[t].pc = "after"
    /\ tx[t].idx <= Len(app.after)
    /\ \E o \in DOMAIN AfterOutcomes, e \in StateEffects :
         LET outcome == AfterOutcomes[o]
             func == app.after[tx[t].idx]
             x == called(tx[t], "after", func, outcome)
         IN  /\ heap' = [heap EXCEPT ![x.request.state] = apply_effect(@, e)]
             /\ tx' = [tx EXCEPT ![t] = after_step(x, outcome)]
    /\ UNCHANGED <<app, lifespan, lib>>

\* response.headers.setdefault("content-length", len(response.body));
\* response.headers._update({"set-cookie": [...]})
finalize(response) ==
    LET headers == MultiDict_setdefault(response.headers, s_content_length,
                                        str(Len(response.body)))
        lines == SimpleCookie_output(response.cookies)
        cookies == [i \in 1..Len(lines) |-> split_colon(lines[i])]
    IN  [response EXCEPT !.headers = MultiDict__update(headers, <<[k |-> s_set_cookie, v |-> cookies]>>)]

\* [[str(k).encode(), str(v).encode()] for k, l in response.headers._items() for v in l]
flatten(headers) ==
    Concat([i \in 1..Len(headers) |->
              [j \in 1..Len(headers[i].v) |-> <<encode(headers[i].k), encode(headers[i].v[j])>>]])

\* send({"type": "http.response.start", "status": ..., "headers": ...})
response_start(response) ==
    [type |-> "http.response.start", status |-> response.status,
     headers |-> flatten(MultiDict__items(response.headers)), body |-> << >>]

\* send({"type": "http.response.body", "body": response.body})
response_body(response) ==
    [type |-> "http.response.body", status |-> 0, headers |-> << >>, body |-> response.body]

\* the after-chain is over: finalize the response and send http.response.start
TxFinalize(t) ==
    /\ \/ tx[t].pc = "finalize"
       \/ tx[t].pc = "after" /\ tx[t].idx > Len(app.after)
    /\ LET response == finalize(tx[t].response)
       IN  tx' = [tx EXCEPT ![t] = [tx[t] EXCEPT !.response = response,
                                                 !.sent = Append(@, response_start(response)),
                                                 !.pc = "send_body"]]
    /\ UNCHANGED <<app, heap, lifespan, lib>>

\* send http.response.body: the call returns
TxSendBody(t) ==
    /\ tx[t].pc = "send_body"
    /\ tx' = [tx EXCEPT ![t] = [tx[t] EXCEPT !.sent = Append(@, response_body(tx[t].response)),
                                             !.pc = "done"]]
    /\ UNCHANGED <<app, heap, lifespan, lib>>

\* __call__ has returned, or has raised: the transaction is over and its Request, its
\* Response and its copy of the state are dropped
TxReturn(t) ==
    /\ tx[t].pc \in {"done", "raised"}
    /\ tx' = [tx EXCEPT ![t] = IdleTx]
    /\ heap' = [heap EXCEPT ![Fresh(t)] = << >>]
    /\ UNCHANGED <<app, lifespan, lib>>

\* one step of transaction t
TxNext(t) ==
    \/ TxBegin(t)
    \/ TxReceive(t)
    \/ TxJson(t)
    \/ TxForm(t)
    \/ TxBefore(t)
    \/ TxRoute(t)
    \/ TxHandler(t)
    \/ TxAfter(t)
    \/ TxFinalize(t)
    \/ TxSendBody(t)
    \/ TxReturn(t)

(* ------------------------------------------------------------------ *)
(* Specifications                                                      *)
(* ------------------------------------------------------------------ *)

(* ------------------------------------------------------------------ *)
(* MultiDict and Response.from_any used on their own                   *)
(* ------------------------------------------------------------------ *)

\* the operations applied to one MultiDict
MaxOps == 3

\* the keys "a", "A" and "b", and the values 1 and 2
Keys == {<<97>>, <<65>>, <<98>>}
Values == {1, 2}

\* the mappings given to MultiDict(...) and to update(...), as (key, value) entries in
\* order: {"A": 3}, [("b", 3), ("b", 4)], {"a": 3, "b": 4}
Sources ==
    { <<[k |-> <<65>>, v |-> 3]>>,
      <<[k |-> <<98>>, v |-> 3], [k |-> <<98>>, v |-> 4]>>,
      <<[k |-> <<97>>, v |-> 3], [k |-> <<98>>, v |-> 4]>> }

\* an operation, as ops keeps it
Op(op, key, val, src) == [op |-> op, key |-> key, val |-> val, src |-> src]

\* the entries of a mapping as a list of pairs
Pairs(src) == [i \in 1..Len(src) |-> <<src[i].k, src[i].v>>]

\* md = MultiDict(list of pairs)
MdInit ==
    /\ ops = << >>
    /\ ~norm.done
    /\ \E src \in Sources :
         /\ md' = MultiDict_from_list(<< >>, Pairs(src))
         /\ ops' = Append(ops, Op("init", << >>, 0, src))
    /\ UNCHANGED <<app, heap, lifespan, tx, norm>>

\* md[key] = val
MdSet ==
    /\ Len(ops) < MaxOps
    /\ ~norm.done
    /\ \E key \in Keys, val \in Values :
         /\ md' = MultiDict_setitem(md, key, val)
         /\ ops' = Append(ops, Op("set", key, val, << >>))
    /\ UNCHANGED <<app, heap, lifespan, tx, norm>>

\* md.pop(key)
MdPop ==
    /\ Len(ops) < MaxOps
    /\ ~norm.done
    /\ \E key \in Keys :
         /\ md' = MultiDict_pop(md, key, 0).self
         /\ ops' = Append(ops, Op("pop", key, 0, << >>))
    /\ UNCHANGED <<app, heap, lifespan, tx, norm>>

\* md.setdefault(key, val)
MdSetdefault ==
    /\ Len(ops) < MaxOps
    /\ ~norm.done
    /\ \E key \in Keys, val \in Values :
         /\ md' = MultiDict_setdefault(md, key, val)
         /\ ops' = Append(ops, Op("setdefault", key, val, << >>))
    /\ UNCHANGED <<app, heap, lifespan, tx, norm>>

\* md.update(source)
MdUpdate ==
    /\ Len(ops) < MaxOps
    /\ ~norm.done
    /\ \E src \in Sources :
         /\ md' = MultiDict_update(md, src)
         /\ ops' = Append(ops, Op("update", << >>, 0, src))
    /\ UNCHANGED <<app, heap, lifespan, tx, norm>>

\* the values given to Response.from_any: None, 404, 999, True (the int 1), "hi", "\u00e9",
\* b"\xff", {"id": "42"}, {}, a Response, a non-empty list, an empty list
Anys ==
    << RetNone, RetInt(NOT_FOUND), RetInt(999), RetInt(1), RetStr(<<104, 105>>), RetStr(<<233>>),
       RetBytes(<<255>>), RetDict(<<[k |-> s_id, v |-> seg_42]>>), RetDict(<< >>),
       RetResponse(Response(UNAUTHORIZED, << >>, << >>, <<120>>)), RetOther(TRUE),
       RetOther(FALSE) >>

\* nothing has been given to Response.from_any yet
NoNorm == [done |-> FALSE, any |-> RetNone, out |-> from_any(RetNone)]

\* norm = Response.from_any(any), or the error it raises
Normalize ==
    /\ ops = << >>
    /\ \E i \in DOMAIN Anys : norm' = [done |-> TRUE, any |-> Anys[i], out |-> from_any(Anys[i])]
    /\ UNCHANGED <<app, heap, lifespan, tx, md, ops>>

NextLib ==
    \/ MdInit
    \/ MdSet
    \/ MdPop
    \/ MdSetdefault
    \/ MdUpdate
    \/ Normalize

Init ==
    /\ md = << >>
    /\ ops = << >>
    /\ norm = NoNorm
    /\ app = TheApp
    /\ heap = [o \in Objects |-> << >>]
    /\ lifespan = [pc |-> "receive", idx |-> 0, received |-> << >>, calls |-> << >>,
                   sent |-> << >>]
    /\ tx = [t \in Tx |-> IdleTx]

\* the lifespan call and one http transaction
Next ==
    \/ LifespanNext
    \/ TxNext(1)

Spec == Init /\ [][Next]_vars

\* two http transactions that interleave freely; each is GET /x with an empty body, and
\* its hooks and handler return None, or a str, while they change the state they are given
Narrow ==
    \A t \in Tx :
        /\ tx[t].request.method \in {s_empty, GET}
        /\ tx[t].request.path \in {<< >>, <<seg_x>>}
        /\ tx[t].request.body = << >>
        /\ tx[t].chunks <= 1
        /\ tx[t].ret.kind \in {"none", "str"}
        /\ \A i \in DOMAIN tx[t].calls : tx[t].calls[i].how \in {"return_falsy", "return_truthy"}

NextConc ==
    \/ ReceiveStartup
    \/ StartupCall
    \/ StartupComplete
    \/ \E t \in Tx : TxBegin(t) /\ Narrow'
    \/ \E t \in Tx : TxReceive(t) /\ Narrow'
    \/ \E t \in Tx : TxBefore(t) /\ Narrow'
    \/ \E t \in Tx : TxRoute(t)
    \/ \E t \in Tx : TxHandler(t) /\ Narrow'
    \/ \E t \in Tx : TxAfter(t) /\ Narrow'
    \/ \E t \in Tx : TxFinalize(t)
    \/ \E t \in Tx : TxSendBody(t)
    \/ \E t \in Tx : TxReturn(t)

SpecConc == Init /\ [][NextConc]_vars

\* one http transaction, GET with an empty body and hooks and a handler that return None
\* or a str, in an application whose routes are also registered after construction
NarrowRoute ==
    /\ tx[1].request.method \in {s_empty, GET}
    /\ tx[1].request.body = << >>
    /\ tx[1].chunks <= 1
    /\ tx[1].ret.kind \in {"none", "str"}
    /\ \A i \in DOMAIN tx[1].calls : tx[1].calls[i].how \in {"return_falsy", "return_truthy"}

NextRoute ==
    \/ ReceiveStartup
    \/ StartupCall
    \/ StartupComplete
    \/ Register
    \/ TxBegin(1) /\ NarrowRoute'
    \/ TxReceive(1) /\ NarrowRoute'
    \/ TxBefore(1) /\ NarrowRoute'
    \/ TxRoute(1)
    \/ TxHandler(1) /\ NarrowRoute'
    \/ TxAfter(1) /\ NarrowRoute'
    \/ TxFinalize(1)
    \/ TxSendBody(1)
    \/ TxReturn(1)

SpecRoute == Init /\ [][NextRoute]_vars

\* one narrow http transaction, as above, in an application on which another one may be
\* mounted, before or after startup
NextMount ==
    \/ ReceiveStartup
    \/ StartupCall
    \/ StartupComplete
    \/ Mount
    \/ TxBegin(1) /\ NarrowRoute'
    \/ TxReceive(1) /\ NarrowRoute'
    \/ TxBefore(1) /\ NarrowRoute'
    \/ TxRoute(1)
    \/ TxHandler(1) /\ NarrowRoute'
    \/ TxAfter(1) /\ NarrowRoute'
    \/ TxFinalize(1)
    \/ TxSendBody(1)
    \/ TxReturn(1)

SpecMount == Init /\ [][NextMount]_vars

\* the lifespan call and one http transaction of an application that was given a
\* serializer of its own
InitSer ==
    /\ md = << >>
    /\ ops = << >>
    /\ norm = NoNorm
    /\ app = CustomApp
    /\ heap = [o \in Objects |-> << >>]
    /\ lifespan = [pc |-> "receive", idx |-> 0, received |-> << >>, calls |-> << >>,
                   sent |-> << >>]
    /\ tx = [t \in Tx |-> IdleTx]

SpecSer == InitSer /\ [][Next]_vars

\* a program that uses a MultiDict, or Response.from_any, on their own
SpecLib == Init /\ [][NextLib]_vars

(* ------------------------------------------------------------------ *)
(* Properties                                                          *)
(* ------------------------------------------------------------------ *)

\* lifespan.startup.complete has been sent
StartupCompleted ==
    \E i \in DOMAIN lifespan.sent : lifespan.sent[i].type = "lifespan.startup.complete"

\* the types of the events sent
Types(sent) == [i \in DOMAIN sent |-> sent[i].type]

\* the values Response.from_any is documented to take
Supported(any) ==
    \/ any.kind \in {"none", "str", "bytes", "dict", "response"}
    \/ any.kind = "int" /\ any.val \in HTTPStatus

\* the last call of x returned a value that cannot be made a Response
UnsupportedReturn(x) ==
    /\ x.calls # << >>
    /\ LET c == x.calls[Len(x.calls)]
       IN  /\ c.how \in {"return_falsy", "return_truthy"}
           /\ c.chain = "handler" \/ c.how = "return_truthy"
           /\ ~Supported(x.ret)

\* something happened in x that is not a recoverable condition
Unrecoverable(x) ==
    \/ \E i \in DOMAIN x.calls : x.calls[i].how = "raise_error"
    \/ UnsupportedReturn(x)

\* the calls of x that interrupt a chain: a Response raised, or a truthy value returned
\* that Response.from_any supports (a call that is not the last one was followed by the
\* after-chain, so its value was supported)
InterruptsAt(x, i) ==
    \/ x.calls[i].how = "raise_response"
    \/ x.calls[i].how = "return_truthy" /\ (i < Len(x.calls) \/ Supported(x.ret))

\* the Response that the value ret stands for
Normalized(ret) == from_any(ret).val

\* the places of __call__ at which a transaction waits, each with a next step
Stages ==
    {"idle", "receive", "json_loads", "parse_qs", "before", "handler", "after", "finalize",
     "send_body", "done"}

\* C1: a transaction after startup in which only recoverable conditions occur does not
\* raise: it stays in the pipeline, which ends having sent exactly http.response.start
\* (the status) and then http.response.body (the body); no transaction sends anything else
C1_ExactlyOneResponse ==
    \A t \in Tx :
        LET x == tx[t]
        IN  /\ Types(x.sent) \in { << >>, <<"http.response.start">>,
                                   <<"http.response.start", "http.response.body">> }
            /\ x.pc = "send_body" => Types(x.sent) = <<"http.response.start">>
            /\ x.pc = "done" =>
                  /\ Types(x.sent) = <<"http.response.start", "http.response.body">>
                  /\ x.sent[1].status = x.response.status
                  /\ x.sent[2].body = x.response.body
            /\ x.pc \notin {"send_body", "done"} => x.sent = << >>
            /\ (StartupCompleted /\ ~Unrecoverable(x)) =>
                  /\ x.pc # "raised"
                  /\ x.pc \in Stages

\* a transaction after startup has met a recoverable condition and has sent its response
C1_Witness ==
    \E t \in Tx :
        /\ tx[t].pc = "done"
        /\ StartupCompleted
        /\ ~Unrecoverable(tx[t])
        /\ tx[t].response.status \in {BAD_REQUEST, METHOD_NOT_ALLOWED, REQUEST_ENTITY_TOO_LARGE}
        /\ Len(tx[t].sent) = 2

\* an after-hook has replaced the response of x
Replaced(x) ==
    \E i \in DOMAIN x.calls :
        x.calls[i].chain = "after" /\ x.calls[i].how \in {"return_truthy", "raise_response"}

\* C2: once the accumulated body is longer than max_content no before-hook and no handler
\* is called and no route is resolved, and unless an after-hook replaces the response its
\* status, and the status sent, is 413; a body of at most max_content bytes is not rejected
C2_OversizedBody ==
    \A t \in Tx :
        LET x == tx[t]
        IN  /\ Len(x.request.body) > app.max_content =>
                  /\ \A i \in DOMAIN x.calls : x.calls[i].chain = "after"
                  /\ ~x.routed
                  /\ ~Replaced(x) =>
                        /\ x.response.status = REQUEST_ENTITY_TOO_LARGE
                        /\ \A j \in DOMAIN x.sent :
                              x.sent[j].type = "http.response.start" =>
                                  x.sent[j].status = REQUEST_ENTITY_TOO_LARGE
            /\ Len(x.request.body) <= app.max_content =>
                  x.response.status # REQUEST_ENTITY_TOO_LARGE

\* an oversized body has been answered with 413, after the after-chain
C2_Witness ==
    \E t \in Tx :
        /\ Len(tx[t].request.body) > app.max_content
        /\ tx[t].pc = "done"
        /\ Len(tx[t].calls) = Len(app.after)
        /\ tx[t].sent[1].status = REQUEST_ENTITY_TOO_LARGE

\* the calls of x before its first call of an after-hook
Prelude(x) == {i \in DOMAIN x.calls : \A j \in 1..i : x.calls[j].chain # "after"}

\* everything the before-chain is claimed to do, with Interrupts(x, i) telling the calls
\* that interrupt it
BeforeChain(x, Interrupts(_, _)) ==
    LET n == Len(x.calls)
    IN  /\ \A i \in 1..n :
              x.calls[i].chain = "before" =>
                  /\ i <= Len(app.before)
                  /\ x.calls[i].func = app.before[i]
                  /\ \A j \in 1..(i - 1) :
                        x.calls[j].chain = "before" /\ x.calls[j].how = "return_falsy"
        /\ \A i \in 1..n :
              (x.calls[i].chain = "before" /\ Interrupts(x, i)) =>
                  /\ \A j \in (i + 1)..n :
                        x.calls[j].chain = "after" /\ x.calls[j].func = app.after[j - i]
                  /\ ~x.routed
                  /\ x.pc # "handler"
                  /\ i = n => /\ x.pc = "after"
                              /\ x.idx = 1
                              /\ x.response = Normalized(x.ret)
                  /\ (x.pc \in {"send_body", "done"} /\ app.after # << >>) => n > i
        /\ \A i \in 1..n :
              (x.calls[i].chain = "before" /\ x.calls[i].how = "return_falsy") =>
                  /\ (i < n /\ i < Len(app.before)) => x.calls[i + 1].chain = "before"
                  /\ (i < n /\ i = Len(app.before)) => x.routed
                  /\ i = n => \/ x.pc = "before" /\ x.idx = i + 1
                              \/ i = Len(app.before) /\ x.routed

\* any truthy value returned, or a Response raised, interrupts
InterruptsAlways(x, i) == x.calls[i].how \in {"return_truthy", "raise_response"}

\* C3 (as stated): before-hooks run in registration order; a truthy value returned, of
\* whatever type, or a Response raised stops the chain, skips the routes and the handler,
\* becomes the response, and the after-chain runs with it; a falsy value does not interrupt
C3_AsStated == \A t \in Tx : BeforeChain(tx[t], InterruptsAlways)

\* C3 (amended): the same, for a Response raised and for a truthy value returned that
\* Response.from_any supports (the other truthy values leave __call__ as an error)
C3_BeforeChain == \A t \in Tx : BeforeChain(tx[t], InterruptsAt)

\* after a first before-hook that returned 0, the second returned a status code: the
\* handler was not called and both after-hooks ran
C3_Witness ==
    \E t \in Tx :
        /\ tx[t].pc = "done"
        /\ Len(tx[t].calls) = 2 + Len(app.after)
        /\ tx[t].calls[1].chain = "before" /\ tx[t].calls[1].how = "return_falsy"
        /\ tx[t].calls[2].chain = "before" /\ tx[t].calls[2].how = "return_truthy"
        /\ tx[t].response.status = UNAUTHORIZED

\* everything the after-chain is claimed to do, with Interrupts(x, i) telling the calls
\* that interrupt it
AfterChain(x, Interrupts(_, _)) ==
    LET n == Len(x.calls)
        m == Cardinality(Prelude(x))
    IN  /\ \A i \in 1..n :
              x.calls[i].chain = "after" =>
                  /\ i > m
                  /\ i - m <= Len(app.after)
                  /\ x.calls[i].func = app.after[i - m]
                  /\ \A j \in (m + 1)..(i - 1) : x.calls[j].how = "return_falsy"
        /\ \A i \in 1..n :
              (x.calls[i].chain = "after" /\ Interrupts(x, i)) =>
                  /\ i = n
                  /\ x.pc \in {"finalize", "send_body", "done"}
                  /\ x.response.status = Normalized(x.ret).status
                  /\ x.response.body = Normalized(x.ret).body
                  /\ x.pc = "finalize" => x.response = Normalized(x.ret)
                  /\ x.pc = "done" =>
                        /\ x.sent[1].status = Normalized(x.ret).status
                        /\ x.sent[2].body = Normalized(x.ret).body

Compiled == \A i \in DOMAIN app.routes : app.routes[i].k.compiled

\* the routes whose pattern matches the whole path
Matching(path) == {i \in DOMAIN app.routes : fullmatch(app.routes[i].k, path)}

\* the handler calls of x
HandlerCalls(x) == {i \in DOMAIN x.calls : x.calls[i].chain = "handler"}

\* C5: once the routes of a transaction are resolved, the route taken is the first
\* registered one whose pattern matches the whole path; the handler called is the one that
\* route has for the request method, and when it has none no handler is called and the
\* response is 405, whatever a later matching route has for that method
C5_FirstFullMatch ==
    \A t \in Tx :
        LET x == tx[t]
            M == Matching(x.request.path)
            methods == app.routes[x.matched].v
        IN  (x.routed /\ Compiled) =>
                /\ x.matched = 0 <=> M = {}
                /\ x.matched # 0 => /\ x.matched \in M
                                    /\ \A j \in M : x.matched <= j
                /\ \A i \in HandlerCalls(x) :
                      /\ x.matched # 0
                      /\ \E m \in DOMAIN methods :
                            /\ methods[m].k = x.request.method
                            /\ methods[m].v = x.calls[i].func
                /\ x.pc = "handler" => /\ x.matched # 0
                                       /\ \E m \in DOMAIN methods :
                                             /\ methods[m].k = x.request.method
                                             /\ methods[m].v = x.func
                /\ (x.matched # 0 /\ \A m \in DOMAIN methods : methods[m].k # x.request.method) =>
                      /\ HandlerCalls(x) = {}
                      /\ x.pc # "handler"
                      /\ ~Replaced(x) => x.response.status = METHOD_NOT_ALLOWED

\* POST /items/42 matches /items/{id} and /items/42, which both have a POST handler: the
\* handler of /items/{id}, registered first, was called
C5_Witness ==
    \E t \in Tx :
        /\ tx[t].pc = "done"
        /\ tx[t].request.method = POST
        /\ tx[t].request.path = <<seg_items, seg_42>>
        /\ Cardinality(Matching(tx[t].request.path)) = 2
        /\ \E i \in HandlerCalls(tx[t]) : tx[t].calls[i].func = "create_item"

\* the header lines of an http.response.start event with the given name
HeaderLines(event, name) ==
    {i \in DOMAIN event.headers : event.headers[i][1] = encode(name)}

\* C6: when the first matching route has no handler for the request method, no handler is
\* called and, unless an after-hook replaces it, the response is 405 with one allow header
\* that lists that route's methods, in order, separated by ", "; when no route matches,
\* it is 404 with the content-type text/html; charset=utf-8; and so is the event sent
C6_NotAllowedNotFound ==
    \A t \in Tx :
        LET x == tx[t]
            methods == app.routes[x.matched].v
            allow == join(<<44, 32>>, [m \in DOMAIN methods |-> methods[m].k])
        IN  (x.routed /\ Compiled /\ ~Replaced(x)
                      /\ x.pc \in {"after", "finalize", "send_body", "done"}) =>
                /\ (x.matched # 0 /\ \A m \in DOMAIN methods : methods[m].k # x.request.method) =>
                      /\ HandlerCalls(x) = {}
                      /\ x.response.status = 405
                      /\ dict_get(x.response.headers, s_allow, << >>) = <<allow>>
                      /\ x.pc \in {"send_body", "done"} =>
                            /\ x.sent[1].status = 405
                            /\ Cardinality(HeaderLines(x.sent[1], s_allow)) = 1
                            /\ \A i \in HeaderLines(x.sent[1], s_allow) :
                                  x.sent[1].headers[i][2] = encode(allow)
                /\ x.matched = 0 =>
                      /\ HandlerCalls(x) = {}
                      /\ x.response.status = 404
                      /\ dict_get(x.response.headers, s_content_type, << >>)
                            = <<MediaType_HTML \o s_charset>>
                      /\ x.pc \in {"send_body", "done"} =>
                            /\ x.sent[1].status = 404
                            /\ Cardinality(HeaderLines(x.sent[1], s_content_type)) = 1
                            /\ \A i \in HeaderLines(x.sent[1], s_content_type) :
                                  x.sent[1].headers[i][2] = encode(MediaType_HTML \o s_charset)

\* GET /items/42 was answered 405 with "allow: POST, PUT", the methods of /items/{id},
\* though /items/42 has a GET handler
C6_Witness ==
    \E t \in Tx :
        /\ tx[t].pc = "done"
        /\ tx[t].request.method = GET
        /\ tx[t].request.path = <<seg_items, seg_42>>
        /\ HandlerCalls(tx[t]) = {}
        /\ tx[t].sent[1].status = 405
        /\ \E i \in DOMAIN tx[t].sent[1].headers :
              tx[t].sent[1].headers[i] = <<s_allow, <<80, 79, 83, 84, 44, 32, 80, 85, 84>> >>

\* the calls of the functions of a list, among the calls of the lifespan
CallsOf(funcs) ==
    LET Among(c) == \E i \in DOMAIN funcs : funcs[i] = c.func
    IN  SelectSeq(lifespan.calls, Among)

\* the events of the given types, among the events sent by the lifespan
SentOf(types) ==
    LET Among(e) == e.type \in types
    IN  SelectSeq(lifespan.sent, Among)

\* the lifespan call has handled lifespan.shutdown to the end
ShutdownHandled ==
    /\ lifespan.pc = "returned"
    /\ \E i \in DOMAIN lifespan.received : lifespan.received[i] = "lifespan.shutdown"

\* C7 (as stated): whatever the shutdown functions do, lifespan.shutdown.complete is the
\* last event sent when the lifespan call has handled lifespan.shutdown
C7_AsStated ==
    ShutdownHandled =>
        /\ lifespan.sent # << >>
        /\ lifespan.sent[Len(lifespan.sent)].type = "lifespan.shutdown.complete"

\* C7 (amended): the shutdown functions are called in order up to the first that fails;
\* the lifespan call then sends one event and returns: lifespan.shutdown.complete when all
\* have succeeded, and lifespan.shutdown.failed, with the type and the text of the
\* exception, when one has failed; lifespan.shutdown.complete does not follow it
C7_Shutdown ==
    LET calls == CallsOf(app.shutdown)
        sent == SentOf({"lifespan.shutdown.complete", "lifespan.shutdown.failed"})
        n == Len(calls)
    IN  /\ n <= Len(app.shutdown)
        /\ \A i \in 1..n : calls[i].func = app.shutdown[i]
        /\ \A i \in 1..(n - 1) : calls[i].error.type = ""
        /\ Len(sent) <= 1
        /\ sent # << >> => ShutdownHandled
        /\ ShutdownHandled =>
              /\ Len(sent) = 1
              /\ lifespan.sent[Len(lifespan.sent)] = sent[1]
              /\ sent[1].type = "lifespan.shutdown.complete" <=>
                    (n = Len(app.shutdown) /\ \A i \in 1..n : calls[i].error.type = "")
              /\ sent[1].type = "lifespan.shutdown.failed" =>
                    /\ n > 0
                    /\ calls[n].error.type # ""
                    /\ sent[1].message = calls[n].error.type \o ": " \o calls[n].error.text

\* after a startup that succeeded, the second shutdown function raised: the last event
\* is lifespan.shutdown.failed and the lifespan call has returned
C7_Witness ==
    /\ ShutdownHandled
    /\ Len(CallsOf(app.shutdown)) = 2
    /\ Types(lifespan.sent) = <<"lifespan.startup.complete", "lifespan.shutdown.failed">>
    /\ lifespan.sent[2].message = "RuntimeError: no database"

\* C8: the startup functions are called in order up to the first that fails; when one
\* fails the routes stay uncompiled, lifespan.startup.failed is sent, with the type and the
\* text of the exception, lifespan.startup.complete is not, and the lifespan call returns
\* without receiving another event; the routes are compiled, and lifespan.startup.complete
\* sent, only when every startup function has succeeded
C8_Startup ==
    LET calls == CallsOf(app.startup)
        failed == SentOf({"lifespan.startup.failed"})
        complete == SentOf({"lifespan.startup.complete"})
        n == Len(calls)
        AllSucceeded == n = Len(app.startup) /\ \A i \in 1..n : calls[i].error.type = ""
    IN  /\ n <= Len(app.startup)
        /\ \A i \in 1..n : calls[i].func = app.startup[i]
        /\ \A i \in 1..(n - 1) : calls[i].error.type = ""
        /\ failed # << >> <=> (n > 0 /\ calls[n].error.type # "")
        /\ failed # << >> =>
              /\ lifespan.sent = failed
              /\ Len(failed) = 1
              /\ failed[1].message = calls[n].error.type \o ": " \o calls[n].error.text
              /\ complete = << >>
              /\ \A i \in DOMAIN app.routes : ~app.routes[i].k.compiled
              /\ lifespan.pc = "returned"
              /\ lifespan.received = <<"lifespan.startup">>
        /\ complete # << >> => AllSucceeded /\ Compiled /\ lifespan.sent[1] = complete[1]
        /\ (\E i \in DOMAIN app.routes : app.routes[i].k.compiled) =>
              AllSucceeded /\ Compiled /\ complete # << >>

\* the first startup function raised: lifespan.startup.failed is the only event sent, the
\* second function was not called, and no route is compiled
C8_Witness ==
    /\ Len(app.startup) = 2
    /\ Len(lifespan.calls) = 1
    /\ lifespan.calls[1].func = app.startup[1]
    /\ Types(lifespan.sent) = <<"lifespan.startup.failed">>
    /\ lifespan.sent[1].message = "KeyError: 'k'"
    /\ lifespan.pc = "returned"

\* transaction t is in progress
Active(t) == tx[t].pc # "idle"

\* C9: the state of a transaction in progress is a dict of its own, neither the baseline
\* nor the state of the other transaction; a step of the transactions leaves the baseline
\* as it is, and leaves the state of a transaction that does not take the step as it is
C9_Isolation ==
    /\ [](\A t \in Tx :
             Active(t) =>
                 /\ tx[t].request.state # "base"
                 /\ \A u \in Tx \ {t} : Active(u) => tx[u].request.state # tx[t].request.state)
    /\ [][/\ lifespan' = lifespan => heap'["base"] = heap["base"]
          /\ \A t \in Tx :
                (Active(t) /\ tx'[t] = tx[t]) =>
                    heap'[tx[t].request.state] = heap[tx[t].request.state]]_vars

\* two transactions in progress, after each has called a function: the baseline has k = 1,
\* one transaction has replaced k and the other has deleted it
C9_Witness ==
    /\ \A t \in Tx : Active(t) /\ tx[t].calls # << >>
    /\ heap["base"] = <<[k |-> "k", v |-> 1]>>
    /\ heap[tx[1].request.state] = <<[k |-> "k", v |-> 2]>>
    /\ heap[tx[2].request.state] = << >>

\* C10: a call of a hook or of a handler that raises an exception that is not a Response
\* is the last call of the transaction; the exception leaves the gateway call, no response
\* is made of it and no event is sent
C10_Propagates ==
    \A t \in Tx :
        LET x == tx[t]
        IN  \A i \in DOMAIN x.calls :
                x.calls[i].how = "raise_error" =>
                    /\ i = Len(x.calls)
                    /\ x.pc = "raised"
                    /\ x.error = "RuntimeError"
                    /\ x.response.status # 500
                    /\ x.sent = << >>

\* the second after-hook raised a RuntimeError after the handler had returned: nothing
\* was sent
C10_Witness ==
    \E t \in Tx :
        LET n == Len(tx[t].calls)
        IN  /\ tx[t].pc = "raised"
            /\ n > 2
            /\ tx[t].calls[n].chain = "after" /\ tx[t].calls[n].func = app.after[2]
            /\ tx[t].calls[n].how = "raise_error"
            /\ tx[t].calls[n - 2].chain = "handler"
            /\ tx[t].sent = << >>

\* C11 (as stated): once startup has completed, a transaction that resolves its route
\* finds every key of the route table compiled, whatever was registered in between
C11_AsStated ==
    \A t \in Tx : (StartupCompleted /\ tx[t].routed) => Compiled

\* a key in lower case: "A" is "a", "B" is "b"
Fold(key) == IF key = <<65>> THEN <<97>> ELSE IF key = <<66>> THEN <<98>> ELSE key

\* the keys that differ from key in case only, key included
Variants(key) == {k \in Keys \cup {<<66>>} : Fold(k) = Fold(key)}

\* the values that the operations of the log, all of them set, have inserted for key
Inserted(key) ==
    LET Under(o) == Fold(o.key) = Fold(key)
        sets == SelectSeq(ops, Under)
    IN  [i \in 1..Len(sets) |-> sets[i].val]

\* md has only been set
OnlySet == \A i \in DOMAIN ops : ops[i].op = "set"

\* C12: after set operations only, _get gives for each key the values inserted for it,
\* in insertion order, and get, indexing, items and values give the last of them
C12_LastValueWins ==
    OnlySet =>
        \A key \in Keys :
            LET ins == Inserted(key)
                items == MultiDict_items(md)
                At == {i \in DOMAIN items : items[i][1] = Fold(key)}
            IN  /\ MultiDict__get(md, key, << >>) = ins
                /\ ins = << >> => /\ MultiDict_get(md, key, 0) = 0
                                  /\ ~MultiDict_getitem(md, key).ok
                                  /\ At = {}
                /\ ins # << >> =>
                      /\ MultiDict_get(md, key, 0) = ins[Len(ins)]
                      /\ MultiDict_getitem(md, key).ok
                      /\ MultiDict_getitem(md, key).val = ins[Len(ins)]
                      /\ Cardinality(At) = 1
                      /\ \A i \in At : /\ items[i][2] = ins[Len(ins)]
                                       /\ MultiDict_values(md)[i] = ins[Len(ins)]

\* md["A"] = 1; md["a"] = 2; md["b"] = 1: "a" holds 1 then 2, "b" holds 1
C12_Witness ==
    /\ ops = <<Op("set", <<65>>, 1, << >>), Op("set", <<97>>, 2, << >>),
               Op("set", <<98>>, 1, << >>)>>
    /\ md = <<[k |-> <<97>>, v |-> <<1, 2>>], [k |-> <<98>>, v |-> <<1>>]>>

\* C13: on every multidict, set, get, _get, pop, setdefault and update give the same
\* result, and leave the same multidict, for a key and for the key in another case
C13_CaseInsensitive ==
    \A key \in Keys :
        \A other \in Variants(key) :
            /\ MultiDict_get(md, key, 0) = MultiDict_get(md, other, 0)
            /\ MultiDict__get(md, key, << >>) = MultiDict__get(md, other, << >>)
            /\ MultiDict_pop(md, key, 0) = MultiDict_pop(md, other, 0)
            /\ \A val \in Values :
                  /\ MultiDict_setitem(md, key, val) = MultiDict_setitem(md, other, val)
                  /\ MultiDict_setdefault(md, key, val) = MultiDict_setdefault(md, other, val)
                  /\ MultiDict_get(MultiDict_setdefault(md, key, val), key, 0)
                        = MultiDict_get(MultiDict_setdefault(md, other, val), other, 0)
                  /\ MultiDict_update(md, <<[k |-> key, v |-> val]>>)
                        = MultiDict_update(md, <<[k |-> other, v |-> val]>>)

\* md["A"] = 1; md["a"] = 2; md.pop("A"): the value set as "a" was popped as "A"
C13_Witness ==
    /\ ops = <<Op("set", <<65>>, 1, << >>), Op("set", <<97>>, 2, << >>),
               Op("pop", <<65>>, 0, << >>)>>
    /\ md = <<[k |-> <<97>>, v |-> <<1>>]>>

\* C14 (as stated): right after md[K] = v, K' in md is true for every K' that differs
\* from K in case only, as md.get(K') is v
C14_AsStated ==
    (ops # << >> /\ ops[Len(ops)].op = "set") =>
        \A other \in Variants(ops[Len(ops)].key) :
            /\ MultiDict_get(md, other, 0) = ops[Len(ops)].val
            /\ MultiDict_contains(md, other)

\* the values a mapping gives for key, in order
Given(src, key) ==
    LET Under(e) == Fold(e.k) = Fold(key)
        entries == SelectSeq(src, Under)
    IN  [i \in 1..Len(entries) |-> entries[i].v]

\* C16 (as stated): md.update(source) leaves for every key the values it held, in order,
\* followed by every value the source gives for it
C16_AsStated ==
    [][(ops' # ops /\ ops'[Len(ops')].op = "update") =>
          \A key \in Keys :
              MultiDict__get(md', key, << >>)
                  = MultiDict__get(md, key, << >>) \o Given(ops'[Len(ops')].src, key)]_vars

\* what Response.from_any makes of the values it takes: a mapping, None, text, bytes, an
\* integer that is a status code, a Response
NormalizedByVariant(any, out) ==
    /\ any.kind = "dict" =>
          /\ out.ok
          /\ out.val.status = 200
          /\ dict_get(out.val.headers, s_content_type, << >>) = <<MediaType_JSON>>
          /\ out.val.body = encode(json_dumps(any.val))
    /\ any.kind = "none" => out.ok /\ out.val.status = 204 /\ out.val.body = << >>
    /\ any.kind = "str" => out.ok /\ out.val.status = 200 /\ out.val.body = encode(any.val)
    /\ any.kind = "bytes" => out.ok /\ out.val.status = 200 /\ out.val.body = any.val
    /\ (any.kind = "int" /\ any.val \in HTTPStatus) =>
          /\ out.ok
          /\ out.val.status = any.val
          /\ out.val.body = encode(phrase(any.val))
    /\ any.kind = "response" => out.ok /\ out.val = any.val

\* the value is none of those that Response.from_any takes
OtherValue(any) ==
    \/ any.kind = "other"
    \/ any.kind = "int" /\ any.val \notin HTTPStatus

\* C18 (as stated): Response.from_any gives the Response of the variant of the value, and
\* fails with a TypeError for any other value
C18_AsStated ==
    norm.done =>
        /\ NormalizedByVariant(norm.any, norm.out)
        /\ OtherValue(norm.any) => ~norm.out.ok /\ norm.out.val = "TypeError"

\* C18 (amended): Response.from_any gives the Response of the variant of the value; it
\* fails with a ValueError for an integer that is not a status code, and with a TypeError
\* for a value of any other type
C18_FromAny ==
    norm.done =>
        /\ NormalizedByVariant(norm.any, norm.out)
        /\ norm.any.kind = "other" => ~norm.out.ok /\ norm.out.val = "TypeError"
        /\ (norm.any.kind = "int" /\ norm.any.val \notin HTTPStatus) =>
              ~norm.out.ok /\ norm.out.val = "ValueError"

\* Response.from_any(404) is a Response of status 404 and body b"Not Found"
C18_Witness ==
    /\ norm.done
    /\ norm.any.kind = "int"
    /\ norm.any.val = 404
    /\ norm.out.ok
    /\ norm.out.val.status = 404
    /\ norm.out.val.body = <<78, 111, 116, 32, 70, 111, 117, 110, 100>>

\* the multidicts of a transaction: the headers and the form of its request, and the
\* headers of its response
Multimaps(x) == <<x.request.headers, x.request.form, x.response.headers>>

\* C15 (as stated): no key of a multidict of a transaction, or of a multidict used on its
\* own, holds an empty list of values, the finalized headers of the response included
C15_AsStated ==
    /\ \A i \in DOMAIN md : md[i].v # << >>
    /\ \A t \in Tx :
          \A m \in DOMAIN Multimaps(tx[t]) :
              \A i \in DOMAIN Multimaps(tx[t])[m] : Multimaps(tx[t])[m][i].v # << >>

\* what the serializer of the application makes of a mapping of str to str: json.dumps
\* gives {"k": "v", ...} and the compact serializer {"k":"v",...}
Serialized(serializer, d) ==
    IF serializer = "json.dumps" THEN json_dumps(d)
    ELSE <<123>> \o join(<<44>>, [i \in 1..Len(d) |-> Quoted(d[i].k) \o <<58>> \o Quoted(d[i].v)])
               \o <<125>>

\* C17 (as stated): right after a handler has returned a mapping, the body of the
\* response is what the serializer given to the Application makes of the mapping
C17_AsStated ==
    \A t \in Tx :
        LET x == tx[t]
            n == Len(x.calls)
        IN  (/\ n > 0
             /\ x.calls[n].chain = "handler"
             /\ x.calls[n].how \in {"return_falsy", "return_truthy"}
             /\ x.ret.kind = "dict"
             /\ x.pc = "after") =>
                x.response.body = encode(Serialized(app.serializer, x.ret.val))

\* the header lines of an event that are the given name and value
Emitted(event, name, value) ==
    {i \in DOMAIN event.headers : event.headers[i] = <<encode(name), encode(value)>>}

\* C19 (as stated): the step that finalizes the response and sends http.response.start
\* keeps every value of every header the response had, and emits each as a line of its
\* own; it sets content-length, to the length of the body, only when the response had none;
\* and it emits one set-cookie line for each cookie of the jar
C19_AsStated ==
    [][\A t \in Tx :
          (tx[t].pc \in {"after", "finalize"} /\ tx'[t].pc = "send_body") =>
              LET before == tx[t].response
                  after == tx'[t].response
                  event == tx'[t].sent[1]
              IN  /\ \A i \in DOMAIN before.headers :
                        \A j \in DOMAIN before.headers[i].v :
                            /\ \E h \in DOMAIN after.headers :
                                  /\ after.headers[h].k = before.headers[i].k
                                  /\ \E e \in DOMAIN after.headers[h].v :
                                        after.headers[h].v[e] = before.headers[i].v[j]
                            /\ Emitted(event, before.headers[i].k, before.headers[i].v[j]) # {}
                  /\ dict_get(after.headers, s_content_length, << >>)
                        = dict_get(before.headers, s_content_length, <<str(Len(before.body))>>)
                  /\ \A c \in DOMAIN before.cookies :
                        Cardinality(Emitted(event, s_set_cookie,
                                            before.cookies[c].k \o <<61>> \o before.cookies[c].v)) = 1]_vars

\* the payloads of the chunk events, joined in the order of delivery
Payload(received) == Concat([i \in DOMAIN received |-> received[i].body])

HeaderError(x) ==
    \E i \in DOMAIN x.scope_headers :
        ~decode(x.scope_headers[i][1]).ok \/ ~decode(x.scope_headers[i][2]).ok

\* the headers of the scope decode, and its cookie header is one the cookie jar rejects
CookieError(x) ==
    /\ ~HeaderError(x)
    /\ \E i \in DOMAIN x.scope_headers :
          /\ lower(decode(x.scope_headers[i][1]).val) = s_cookie
          /\ decode(x.scope_headers[i][2]).val = s_bad_cookie

\* the headers and the cookies of the scope are well formed, its content type is JSON, the
\* body has been received whole within max_content, and it is not UTF-8 or not JSON; the
\* error is met once json.loads has been tried
JsonError(x) ==
    LET n == Len(x.received)
        body == Payload(x.received)
    IN  /\ ~HeaderError(x)
        /\ ~CookieError(x)
        /\ \E i \in DOMAIN x.scope_headers :
              /\ lower(decode(x.scope_headers[i][1]).val) = s_content_type
              /\ Contains(decode(x.scope_headers[i][2]).val, MediaType_JSON)
        /\ n > 0
        /\ ~x.received[n].more_body
        /\ Len(body) <= app.max_content
        /\ x.pc # "json_loads"
        /\ ~decode(body).ok \/ ~json_loads(decode(body).val).ok

\* the transaction x has met a protocol decode error
DecodeError(x) == x.pc # "idle" /\ (HeaderError(x) \/ CookieError(x) \/ JsonError(x))

\* C21: once a transaction has met a protocol decode error (header bytes, cookie syntax, a
\* JSON body that is not UTF-8 or not JSON) no route is resolved and no handler is called;
\* the after-chain is what runs next, from its first hook, on the 400 response; and unless
\* an after-hook replaces the response or fails, every after-hook is called in order and
\* http.response.start with status 400 and http.response.body are sent
C21_DecodeError ==
    \A t \in Tx :
        LET x == tx[t]
        IN  DecodeError(x) =>
              /\ x.pc \in {"after", "finalize", "send_body", "done", "raised"}
              /\ ~x.routed
              /\ HandlerCalls(x) = {}
              /\ x.calls = << >> =>
                    /\ x.response = Response(BAD_REQUEST, << >>, << >>, << >>)
                    /\ x.pc = "after" => x.idx = 1
              /\ x.pc = "raised" => Unrecoverable(x)
              /\ x.pc = "after" => x.idx = Len(x.calls) + 1
              /\ (~Replaced(x) /\ ~Unrecoverable(x)) =>
                    /\ x.response.status = BAD_REQUEST
                    /\ \A i \in DOMAIN x.calls :
                          x.calls[i].chain = "after" /\ x.calls[i].func = app.after[i]
                    /\ x.pc \in {"finalize", "send_body", "done"} =>
                          Len(x.calls) = Len(app.after)
                    /\ x.pc = "done" =>
                          /\ Types(x.sent) = <<"http.response.start", "http.response.body">>
                          /\ x.sent[1].status = BAD_REQUEST

\* a JSON body that is not UTF-8 was answered 400: both after-hooks were called, nothing
\* else was, and the two events were sent
C21_Witness ==
    \E t \in Tx :
        /\ JsonError(tx[t])
        /\ ~decode(tx[t].request.body).ok
        /\ tx[t].pc = "done"
        /\ Len(tx[t].calls) = Len(app.after)
        /\ \A i \in DOMAIN tx[t].calls : tx[t].calls[i].chain = "after"
        /\ tx[t].sent[1].status = BAD_REQUEST
        /\ Len(tx[t].sent) = 2

\* the after-chain of x has been entered
AfterEntered(x) == x.pc \in {"finalize", "send_body", "done"} \/ x.calls # << >>

\* C22 (as stated): after a decoding failure of the header bytes no chunk is received, no
\* content is decoded, and the before-chain is run, with the 400 response pending, before
\* the after-chain
C22_AsStated ==
    \A t \in Tx :
        LET x == tx[t]
        IN  (x.pc # "idle" /\ HeaderError(x)) =>
              /\ x.received = << >>
              /\ ~x.request.json.isset
              /\ AfterEntered(x) =>
                    /\ x.calls # << >>
                    /\ x.calls[1].chain = "before"

\* C22: after a decoding failure of the header bytes the request keeps no header and no
\* cookie, no chunk is received, no content is decoded, no before-hook and no handler is
\* called and no route is resolved: the first after-hook is what is called next, with the
\* 400 response pending
C22_HeaderError ==
    \A t \in Tx :
        LET x == tx[t]
        IN  (x.pc # "idle" /\ HeaderError(x)) =>
              /\ x.request.headers = << >>
              /\ x.request.cookies = << >>
              /\ x.received = << >>
              /\ x.chunks = 0
              /\ x.request.body = << >>
              /\ ~x.request.json.isset
              /\ x.request.form = << >>
              /\ ~x.routed
              /\ x.pc \notin {"receive", "json_loads", "parse_qs", "before", "handler"}
              /\ \A i \in DOMAIN x.calls : x.calls[i].chain = "after"
              /\ x.calls = << >> =>
                    /\ x.pc = "after"
                    /\ x.idx = 1
                    /\ x.response = Response(BAD_REQUEST, << >>, << >>, << >>)
              /\ x.calls # << >> => x.calls[1].func = app.after[1]

\* the header bytes did not decode, the first after-hook was the first function called,
\* and the 400 response has been sent
C22_Witness ==
    \E t \in Tx :
        /\ HeaderError(tx[t])
        /\ tx[t].pc = "done"
        /\ tx[t].calls # << >>
        /\ tx[t].calls[1] = [chain |-> "after", func |-> app.after[1], how |-> "return_falsy"]
        /\ tx[t].received = << >>
        /\ tx[t].sent[1].status = BAD_REQUEST

\* the handler registered in a route table for a pattern and a method, "" when there is none
Registered(routes, k, method) == dict_get(dict_get(routes, k, << >>), method, "")

\* what mount(sub, prefix) is claimed to make of the application parent
Merged(parent, sub, prefix, after) ==
    /\ \A i \in DOMAIN sub.routes :
          \A j \in DOMAIN sub.routes[i].v :
              Registered(after.routes, Raw(prefix \o sub.routes[i].k.re), sub.routes[i].v[j].k)
                  = sub.routes[i].v[j].v
    /\ \A i \in DOMAIN parent.routes :
          \A j \in DOMAIN parent.routes[i].v :
              LET k == parent.routes[i].k
                  method == parent.routes[i].v[j].k
                  Again == \E s \in DOMAIN sub.routes :
                              /\ Raw(prefix \o sub.routes[s].k.re) = k
                              /\ dict_has(sub.routes[s].v, method)
              IN  ~Again => Registered(after.routes, k, method) = parent.routes[i].v[j].v
    /\ after.startup = parent.startup \o sub.startup
    /\ after.shutdown = parent.shutdown \o sub.shutdown
    /\ after.before = parent.before \o sub.before
    /\ after.after = parent.after \o sub.after
    /\ after.max_content >= parent.max_content
    /\ after.max_content >= sub.max_content
    /\ after.max_content \in {parent.max_content, sub.max_content}

\* C23 (as stated): a mount before the routes are compiled leaves every handler of the
\* mounted application registered at prefix + pattern, keeps every (pattern, method)
\* handler of the parent that the mounted application does not register at the same
\* prefixed pattern and method, appends the mounted application's startup, shutdown,
\* before and after functions to the parent's, and takes the larger max_content
C23_AsStated ==
    [][(Len(app'.startup) > Len(app.startup) /\ ~StartupCompleted /\ lifespan.received = << >>) =>
          \E prefix \in {<< >>, <<Lit(seg_items)>>} : Merged(app, SubApp, prefix, app')]_vars

====
